---- MODULE Spec2Model ----
(***************************************************************************)
(* Dictation-command interpreter and chart state of the periodontal        *)
(* charting application.                                                   *)
(*                                                                         *)
(*   normalizeCommand / parseCommand   src/components/Tooth.tsx            *)
(*   InfoPanel parse-and-apply effect  src/components/Tooth.tsx            *)
(*   useChartData / App handlers       src/App.tsx                         *)
(*   getUniversalToothId               src/services/treatmentAnalysis...   *)
(*   processDbMeasurements             src/dbDataSync.ts                   *)
(*   syncDatabaseData                  src/App.tsx                         *)
(*                                                                         *)
(* Command texts are TLA+ strings; the regular expressions of the source   *)
(* are evaluated character by character with JavaScript's leftmost,        *)
(* greedy, non-overlapping semantics.                                      *)
(***************************************************************************)
EXTENDS Integers, Sequences, FiniteSets, TLC

(***************************************************************************)
(* Characters and character classes of JavaScript regular expressions.     *)
(***************************************************************************)
Digits == {"0", "1", "2", "3", "4", "5", "6", "7", "8", "9"}

LowerLetters ==
    {"a", "b", "c", "d", "e", "f", "g", "h", "i", "j", "k", "l", "m",
     "n", "o", "p", "q", "r", "s", "t", "u", "v", "w", "x", "y", "z"}

UpperToLower ==
    [c \in {"A", "B", "C", "D", "E", "F", "G", "H", "I", "J", "K", "L", "M",
            "N", "O", "P", "Q", "R", "S", "T", "U", "V", "W", "X", "Y", "Z"} |->
        CASE c = "A" -> "a" [] c = "B" -> "b" [] c = "C" -> "c" [] c = "D" -> "d"
          [] c = "E" -> "e" [] c = "F" -> "f" [] c = "G" -> "g" [] c = "H" -> "h"
          [] c = "I" -> "i" [] c = "J" -> "j" [] c = "K" -> "k" [] c = "L" -> "l"
          [] c = "M" -> "m" [] c = "N" -> "n" [] c = "O" -> "o" [] c = "P" -> "p"
          [] c = "Q" -> "q" [] c = "R" -> "r" [] c = "S" -> "s" [] c = "T" -> "t"
          [] c = "U" -> "u" [] c = "V" -> "v" [] c = "W" -> "w" [] c = "X" -> "x"
          [] c = "Y" -> "y" [] c = "Z" -> "z"]

\* The character at position i of s, "" outside the string.
At(s, i) == IF i >= 1 /\ i <= Len(s) THEN SubSeq(s, i, i) ELSE ""

\* \d
IsDigit(c) == c \in Digits

\* \w
IsWordChar(c) == c \in LowerLetters \cup DOMAIN UpperToLower \cup Digits \cup {"_"}

\* \s
IsSpace(c) == c \in {" ", "\t", "\n"}

\* \b between positions i-1 and i of s.
WordBoundary(s, i) == IsWordChar(At(s, i - 1)) # IsWordChar(At(s, i))

\* The literal lit stands at position i of s.
LitAt(s, lit, i) ==
    /\ i + Len(lit) - 1 <= Len(s)
    /\ SubSeq(s, i, i + Len(lit) - 1) = lit

\* \s* from position i: the first position that holds no whitespace.
RECURSIVE SkipSpaces(_, _)
SkipSpaces(s, i) == IF IsSpace(At(s, i)) THEN SkipSpaces(s, i + 1) ELSE i

\* String.prototype.toLowerCase
RECURSIVE ToLowerCase(_)
ToLowerCase(s) ==
    IF s = "" THEN ""
    ELSE LET c == Head(s)
         IN  (IF c \in DOMAIN UpperToLower THEN UpperToLower[c] ELSE c)
                 \o ToLowerCase(Tail(s))

\* String.prototype.trim
RECURSIVE TrimEnd(_)
TrimEnd(s) ==
    IF s # "" /\ IsSpace(At(s, Len(s))) THEN TrimEnd(SubSeq(s, 1, Len(s) - 1)) ELSE s

Trim(s) == LET i == SkipSpaces(s, 1) IN TrimEnd(SubSeq(s, i, Len(s)))

\* parseInt of a run of decimal digits.
DigitValue(c) ==
    CASE c = "0" -> 0 [] c = "1" -> 1 [] c = "2" -> 2 [] c = "3" -> 3 [] c = "4" -> 4
      [] c = "5" -> 5 [] c = "6" -> 6 [] c = "7" -> 7 [] c = "8" -> 8 [] c = "9" -> 9

RECURSIVE ParseInt(_)
ParseInt(s) ==
    IF s = "" THEN 0
    ELSE 10 * ParseInt(SubSeq(s, 1, Len(s) - 1)) + DigitValue(At(s, Len(s)))

(***************************************************************************)
(* normalizeCommand                                                        *)
(***************************************************************************)
\* The value of the one-element set S.
The(S) == CHOOSE v \in S : TRUE

\* The synonym table in the key order Object.keys enumerates it.
synonymMap ==
    << <<"buckle", "buccal">>, <<"bocal", "buccal">>, <<"bucc", "buccal">>,
       <<"b", "buccal">>,
       <<"lingual", "lingual">>, <<"ling", "lingual">>, <<"l", "lingual">>,
       <<"palatal", "lingual">>, <<"pal", "lingual">>,
       <<"pocket depth", "pd">>, <<"pocky", "pd">>, <<"pocket", "pd">>,
       <<"period", "pd">>, <<"depths", "pd">>, <<"bed", "pd">>,
       <<"recession", "rec">>, <<"receding", "rec">>,
       <<"mobility", "mob">>,
       <<"bleeding on probing", "bop">>, <<"bleeding", "bop">>,
       <<"one", "1">>, <<"two", "2">>, <<"three", "3">>, <<"four", "4">>,
       <<"five", "5">>, <<"six", "6">>, <<"seven", "7">>, <<"eight", "8">>,
       <<"nine", "9">>, <<"zero", "0">> >>

fillerWords == <<"and", "for", "the", "is", "a", "to", "please", "set">>

\* s.replace(new RegExp(`\\b${key}\\b`, 'g'), val), scanning from position i.
RECURSIVE ReplaceWordFrom(_, _, _, _)
ReplaceWordFrom(s, key, val, i) ==
    IF i > Len(s) THEN ""
    ELSE IF /\ LitAt(s, key, i)
            /\ WordBoundary(s, i)
            /\ WordBoundary(s, i + Len(key))
         THEN val \o ReplaceWordFrom(s, key, val, i + Len(key))
         ELSE At(s, i) \o ReplaceWordFrom(s, key, val, i + 1)

\* Object.keys(synonymMap).forEach(...), from the k-th key on.
RECURSIVE ReplaceSynonyms(_, _)
\* ReplaceSynonyms that stops before the number words of the table.
ReplaceSynonyms_NoNumberWords(s, k) ==
    IF k > 20 THEN s
    ELSE The({ ReplaceSynonyms(t, k + 1) :
                t \in { ReplaceWordFrom(s, synonymMap[k][1], synonymMap[k][2], 1) } })

ReplaceSynonyms(s, k) ==
    IF k > Len(synonymMap) THEN s
    ELSE The({ ReplaceSynonyms(t, k + 1) :
                t \in { ReplaceWordFrom(s, synonymMap[k][1], synonymMap[k][2], 1) } })

\* s.replace(/(\d)\s*[,-]\s*(\d)/g, '$1 $2'), scanning from position i.
RECURSIVE ReplaceDelimFrom(_, _)
ReplaceDelimFrom(s, i) ==
    IF i > Len(s) THEN ""
    ELSE LET j == SkipSpaces(s, i + 1)
             k == SkipSpaces(s, j + 1)
         IN  IF /\ IsDigit(At(s, i))
                /\ At(s, j) \in {",", "-"}
                /\ IsDigit(At(s, k))
             THEN At(s, i) \o " " \o At(s, k) \o ReplaceDelimFrom(s, k + 1)
             ELSE At(s, i) \o ReplaceDelimFrom(s, i + 1)

\* s.replace(/([1-4])-([1-8])/g, '$1 $2'), scanning from position i.
RECURSIVE ReplaceToothHyphenFrom(_, _)
ReplaceToothHyphenFrom(s, i) ==
    IF i > Len(s) THEN ""
    ELSE IF /\ At(s, i) \in {"1", "2", "3", "4"}
            /\ At(s, i + 1) = "-"
            /\ At(s, i + 2) \in {"1", "2", "3", "4", "5", "6", "7", "8"}
         THEN At(s, i) \o " " \o At(s, i + 2) \o ReplaceToothHyphenFrom(s, i + 3)
         ELSE At(s, i) \o ReplaceToothHyphenFrom(s, i + 1)

\* s.replace(new RegExp(`\\s${word}\\s`, 'g'), ' '), scanning from position i.
RECURSIVE ReplaceFillerFrom(_, _, _)
ReplaceFillerFrom(s, word, i) ==
    IF i > Len(s) THEN ""
    ELSE IF /\ IsSpace(At(s, i))
            /\ LitAt(s, word, i + 1)
            /\ IsSpace(At(s, i + 1 + Len(word)))
         THEN " " \o ReplaceFillerFrom(s, word, i + 2 + Len(word))
         ELSE At(s, i) \o ReplaceFillerFrom(s, word, i + 1)

\* fillerWords.forEach(...), from the k-th word on.
RECURSIVE RemoveFillers(_, _)
RemoveFillers(s, k) ==
    IF k > Len(fillerWords) THEN s
    ELSE The({ RemoveFillers(t, k + 1) :
                t \in { ReplaceFillerFrom(s, fillerWords[k], 1) } })

\* s.replace(/\s+/g, ' '), scanning from position i.
RECURSIVE CollapseSpacesFrom(_, _)
CollapseSpacesFrom(s, i) ==
    IF i > Len(s) THEN ""
    ELSE IF IsSpace(At(s, i))
         THEN " " \o CollapseSpacesFrom(s, SkipSpaces(s, i))
         ELSE At(s, i) \o CollapseSpacesFrom(s, i + 1)

normalizeCommand(text) ==
    LET padded   == " " \o Trim(ToLowerCase(text)) \o " "
    IN  The({ Trim(CollapseSpacesFrom(fillers, 1)) :
                fillers \in { RemoveFillers(hyphen, 1) :
                  hyphen \in { ReplaceToothHyphenFrom(delim2, 1) :
                    delim2 \in { ReplaceDelimFrom(delim1, 1) :
                      delim1 \in { ReplaceDelimFrom(synonyms, 1) :
                        synonyms \in { ReplaceSynonyms(padded, 1) } } } } } })

(***************************************************************************)
(* parseCommand                                                            *)
(***************************************************************************)
\* enum MeasurementType
POCKET_DEPTH == "Pocket Depth"
RECESSION == "Recession"
BLEEDING == "Bleeding on Probing"
PLAQUE == "Plaque"
MOBILITY == "Mobility"
FURCATION == "Furcation"

\* null, for the surface-valued fields (activeSurface, contextUpdate).
Null == "null"

\* action = null
NoAction == [type |-> "null", payload |-> 0]

\* getUniversalToothId with the lower quadrants exchanged.
getUniversalToothId_LowerSwapped(quadrant, toothInQuad) ==
    IF quadrant < 1 \/ quadrant > 4 \/ toothInQuad < 1 \/ toothInQuad > 8 THEN 0
    ELSE CASE quadrant = 1 -> 9 - toothInQuad
           [] quadrant = 2 -> 8 + toothInQuad
           [] quadrant = 3 -> 25 - toothInQuad
           [] quadrant = 4 -> 24 + toothInQuad

\* Converts quadrant-based notation to the Universal Numbering System;
\* 0 stands for the null the source returns (both are falsy).
getUniversalToothId(quadrant, toothInQuad) ==
    IF quadrant < 1 \/ quadrant > 4 \/ toothInQuad < 1 \/ toothInQuad > 8 THEN 0
    ELSE CASE quadrant = 1 -> 9 - toothInQuad
           [] quadrant = 2 -> 8 + toothInQuad
           [] quadrant = 3 -> 24 + toothInQuad
           [] quadrant = 4 -> 25 - toothInQuad

\* commandString.split(' ')
RECURSIVE Split(_, _)
Split(s, cur) ==
    IF s = "" THEN <<cur>>
    ELSE IF Head(s) = " " THEN <<cur>> \o Split(Tail(s), "")
         ELSE Split(Tail(s), cur \o Head(s))

\* ([1-4])\s+([1-8])\b at position d.
NavDigitsAt(s, d) ==
    LET e == SkipSpaces(s, d + 1)
    IN  /\ At(s, d) \in {"1", "2", "3", "4"}
        /\ IsSpace(At(s, d + 1))
        /\ At(s, e) \in {"1", "2", "3", "4", "5", "6", "7", "8"}
        /\ WordBoundary(s, e + 1)

\* (buccal|lingual)\s+ at position i, followed by the digits of navRegex.
NavSurfaceAt(s, w, i) ==
    /\ LitAt(s, w, i)
    /\ IsSpace(At(s, i + Len(w)))
    /\ NavDigitsAt(s, SkipSpaces(s, i + Len(w)))

\* navRegex matches with its first character at position i.
NavAt(s, i) ==
    \/ NavSurfaceAt(s, "buccal", i)
    \/ NavSurfaceAt(s, "lingual", i)
    \/ NavDigitsAt(s, i)

\* The smallest element of a non-empty set of positions (leftmost match).
Leftmost(S) == CHOOSE i \in S : \A j \in S : i <= j

\* commandString.match(navRegex): the capture groups of the leftmost match.
navMatch(s) ==
    LET starts == {i \in 1..Len(s) : NavAt(s, i)}
    IN  IF starts = {} THEN [matched |-> FALSE, surface |-> Null, quadrant |-> 0, toothInQuad |-> 0]
        ELSE LET i == Leftmost(starts)
                 w == IF NavSurfaceAt(s, "buccal", i) THEN "buccal"
                      ELSE IF NavSurfaceAt(s, "lingual", i) THEN "lingual"
                      ELSE Null
                 d == IF w = Null THEN i ELSE SkipSpaces(s, i + Len(w))
                 e == SkipSpaces(s, d + 1)
             IN  [matched |-> TRUE, surface |-> w,
                  quadrant |-> ParseInt(At(s, d)), toothInQuad |-> ParseInt(At(s, e))]

\* (\d{1,2}) at position i: the position after the greedy run, i if no digit.
DigitsEnd(s, i) ==
    IF ~IsDigit(At(s, i)) THEN i
    ELSE IF IsDigit(At(s, i + 1)) THEN i + 2 ELSE i + 1

\* (\d{1,2})\s+(\d{1,2})\s+(\d{1,2}) at position i; end is the position after
\* the third number as the greedy quantifier takes it.
TripletAt(s, i) ==
    LET e1 == DigitsEnd(s, i)
        b2 == SkipSpaces(s, e1)
        e2 == DigitsEnd(s, b2)
        b3 == SkipSpaces(s, e2)
        e3 == DigitsEnd(s, b3)
    IN  [matched |-> /\ e1 > i /\ b2 > e1
                     /\ e2 > b2 /\ b3 > e2
                     /\ e3 > b3,
         n1 |-> ParseInt(SubSeq(s, i, e1 - 1)),
         n2 |-> ParseInt(SubSeq(s, b2, e2 - 1)),
         n3 |-> ParseInt(SubSeq(s, b3, e3 - 1)),
         end |-> e3]

\* commandString.match(rapidEntryRegex): ^ and $ anchor the triplet.
rapidMatch(s) ==
    LET t == TripletAt(s, 1)
    IN  [t EXCEPT !.matched = t.matched /\ t.end = Len(s) + 1]

\* (buccal|lingual)\s+(pd|rec)\s+ and the triplet, at position i.
FullAt(s, w, k, i) ==
    /\ LitAt(s, w, i)
    /\ IsSpace(At(s, i + Len(w)))
    /\ LET b == SkipSpaces(s, i + Len(w))
       IN  /\ LitAt(s, k, b)
           /\ IsSpace(At(s, b + Len(k)))
           /\ TripletAt(s, SkipSpaces(s, b + Len(k))).matched

\* commandString.match(fullCommandRegex): the groups of the leftmost match.
fullMatch(s) ==
    LET combos == {<<w, k>> : w \in {"buccal", "lingual"}, k \in {"pd", "rec"}}
        starts == {i \in 1..Len(s) : \E c \in combos : FullAt(s, c[1], c[2], i)}
    IN  IF starts = {}
        THEN [matched |-> FALSE, surface |-> Null, kind |-> Null, n1 |-> 0, n2 |-> 0, n3 |-> 0]
        ELSE LET i == Leftmost(starts)
                 c == CHOOSE c \in combos : FullAt(s, c[1], c[2], i)
                 b == SkipSpaces(s, i + Len(c[1]))
                 t == TripletAt(s, SkipSpaces(s, b + Len(c[2])))
             IN  [matched |-> TRUE, surface |-> c[1], kind |-> c[2],
                  n1 |-> t.n1, n2 |-> t.n2, n3 |-> t.n3]

\* MobAt accepting any digit as the grade.
MobAt_AnyDigit(s, i) ==
    /\ LitAt(s, "mob", i)
    /\ IsSpace(At(s, i + 3))
    /\ IsDigit(At(s, SkipSpaces(s, i + 3)))

\* mob\s+([0-3]) at position i.
MobAt(s, i) ==
    /\ LitAt(s, "mob", i)
    /\ IsSpace(At(s, i + 3))
    /\ At(s, SkipSpaces(s, i + 3)) \in {"0", "1", "2", "3"}

\* commandString.match(mobRegex)
mobMatch(s) ==
    LET starts == {i \in 1..Len(s) : MobAt(s, i)}
    IN  IF starts = {} THEN [matched |-> FALSE, grade |-> 0]
        ELSE [matched |-> TRUE,
              grade |-> ParseInt(At(s, SkipSpaces(s, Leftmost(starts) + 3)))]

\* The three site updates of one surface, distal, mid, mesial.
SiteUpdates(type, surface, n1, n2, n3) ==
    << [type |-> type, location |-> "disto_" \o surface, value |-> n1],
       [type |-> type, location |-> "mid_" \o surface, value |-> n2],
       [type |-> type, location |-> "mesio_" \o surface, value |-> n3] >>

ParseResult(updates, action, contextUpdate) ==
    [updates |-> updates, action |-> action, contextUpdate |-> contextUpdate]

\* Pass 1: navigation; the tooth id the match resolves to, 0 if the pass
\* does not return.
NavToothId(commandString) ==
    LET m == navMatch(commandString)
    IN  IF m.matched THEN getUniversalToothId(m.quadrant, m.toothInQuad) ELSE 0

\* NavResult that drops the surface word of the match.
NavResult_NoContext(commandString) ==
    ParseResult(<< >>,
                [type |-> "SELECT_TOOTH", payload |-> NavToothId(commandString)],
                Null)

NavResult(commandString) ==
    LET m == navMatch(commandString)
    IN  ParseResult(<< >>,
                    [type |-> "SELECT_TOOTH", payload |-> NavToothId(commandString)],
                    m.surface)

\* RapidApplies without the test of activeSurface.
RapidApplies_NoSurfaceCheck(commandString, activeSurface) ==
    rapidMatch(commandString).matched

\* Pass 2: contextual rapid data entry.
RapidApplies(commandString, activeSurface) ==
    activeSurface # Null /\ rapidMatch(commandString).matched

RapidResult(commandString, activeSurface) ==
    LET m == rapidMatch(commandString)
    IN  ParseResult(SiteUpdates(POCKET_DEPTH, activeSurface, m.n1, m.n2, m.n3),
                    NoAction, Null)

\* Pass 3: full commands.
FullResult(commandString) ==
    LET m == fullMatch(commandString)
        type == IF Head(m.kind) = "p" THEN POCKET_DEPTH ELSE RECESSION
    IN  ParseResult(SiteUpdates(type, m.surface, m.n1, m.n2, m.n3), NoAction, m.surface)

\* Pass 4: mobility.
MobResult(commandString) ==
    ParseResult(<< [type |-> MOBILITY, location |-> "mobility",
                    value |-> mobMatch(commandString).grade] >>,
                NoAction, Null)

\* SurfaceApplies that knows one surface only.
SurfaceApplies_BuccalOnly(commandString) ==
    LET parts == Split(commandString, "")
    IN  Len(parts) = 1 /\ parts[1] = "buccal"

\* Pass 5: surface context setter.
SurfaceApplies(commandString) ==
    LET parts == Split(commandString, "")
    IN  Len(parts) = 1 /\ (parts[1] = "buccal" \/ parts[1] = "lingual")

SurfaceResult(commandString) ==
    ParseResult(<< >>, NoAction, Split(commandString, "")[1])

EmptyResult == ParseResult(<< >>, NoAction, Null)

\* ParseNormalized with the rapid-entry pass tried before navigation.
ParseNormalized_RapidFirst(commandString, activeSurface) ==
    IF RapidApplies(commandString, activeSurface)
    THEN RapidResult(commandString, activeSurface)
    ELSE IF NavToothId(commandString) # 0 THEN NavResult(commandString)
    ELSE IF fullMatch(commandString).matched THEN FullResult(commandString)
    ELSE IF mobMatch(commandString).matched THEN MobResult(commandString)
    ELSE IF SurfaceApplies(commandString) THEN SurfaceResult(commandString)
    ELSE EmptyResult

\* ParseNormalized whose navigation pass also collects the rapid-entry updates.
ParseNormalized_NavKeepsUpdates(commandString, activeSurface) ==
    IF NavToothId(commandString) # 0
    THEN IF RapidApplies(commandString, activeSurface)
         THEN ParseResult(RapidResult(commandString, activeSurface).updates,
                          NavResult(commandString).action,
                          NavResult(commandString).contextUpdate)
         ELSE NavResult(commandString)
    ELSE IF RapidApplies(commandString, activeSurface)
         THEN RapidResult(commandString, activeSurface)
    ELSE IF fullMatch(commandString).matched THEN FullResult(commandString)
    ELSE IF mobMatch(commandString).matched THEN MobResult(commandString)
    ELSE IF SurfaceApplies(commandString) THEN SurfaceResult(commandString)
    ELSE EmptyResult

\* The passes in the order of the source, each returning as soon as it matches.
ParseNormalized(commandString, activeSurface) ==
    IF NavToothId(commandString) # 0 THEN NavResult(commandString)
    ELSE IF RapidApplies(commandString, activeSurface)
         THEN RapidResult(commandString, activeSurface)
    ELSE IF fullMatch(commandString).matched THEN FullResult(commandString)
    ELSE IF mobMatch(commandString).matched THEN MobResult(commandString)
    ELSE IF SurfaceApplies(commandString) THEN SurfaceResult(commandString)
    ELSE EmptyResult

parseCommand(text, activeSurface) ==
    ParseNormalized(normalizeCommand(text), activeSurface)

(***************************************************************************)
(* Chart data: INITIAL_CHART_DATA and updateChartData                      *)
(***************************************************************************)
ToothIds == 1..32

\* A tooth is a record whose optional keys (mobility, furcation, isMissing)
\* are present only when the source object holds them; a measurement block
\* is a function from the sites recorded so far.
EmptyBlock == [loc \in {} |-> 0]

BaseTooth(id) ==
    [id |-> id,
     measurements |-> [type \in {POCKET_DEPTH, RECESSION, BLEEDING, PLAQUE} |-> EmptyBlock]]

SampleTooth(id) ==
    LET base == BaseTooth(id)
    IN  CASE id = 3 ->
               [base EXCEPT
                  !.measurements[POCKET_DEPTH] = [disto_buccal |-> 4, mid_buccal |-> 5, mesio_buccal |-> 4],
                  !.measurements[RECESSION] = [disto_buccal |-> 1, mid_buccal |-> 2, mesio_buccal |-> 1],
                  !.measurements[BLEEDING] = [mid_buccal |-> TRUE]]
          [] id = 7 ->
               [base EXCEPT
                  !.measurements[POCKET_DEPTH] = [disto_lingual |-> 4, mid_lingual |-> 4, mesio_lingual |-> 5],
                  !.measurements[RECESSION] = [disto_lingual |-> 2, mid_lingual |-> 3, mesio_lingual |-> 2],
                  !.measurements[PLAQUE] = [mid_lingual |-> TRUE]]
          [] id = 14 ->
               [base EXCEPT
                  !.measurements[POCKET_DEPTH] = [mid_buccal |-> 7, disto_buccal |-> 6, mesio_buccal |-> 6],
                  !.measurements[RECESSION] = [mid_buccal |-> 3, disto_buccal |-> 2, mesio_buccal |-> 2],
                  !.measurements[BLEEDING] = [mid_buccal |-> TRUE, disto_buccal |-> TRUE]]
               @@ [furcation |-> [buccal |-> 1]]
          [] id = 19 ->
               [base EXCEPT
                  !.measurements[POCKET_DEPTH] = [mid_buccal |-> 5, mid_lingual |-> 6],
                  !.measurements[RECESSION] = [mid_buccal |-> 3, mid_lingual |-> 3],
                  !.measurements[BLEEDING] = [mid_lingual |-> TRUE]]
               @@ [mobility |-> 1]
          [] id = 30 ->
               [base EXCEPT
                  !.measurements[POCKET_DEPTH] = [disto_buccal |-> 6, mid_buccal |-> 8, mesio_buccal |-> 6],
                  !.measurements[RECESSION] = [disto_buccal |-> 3, mid_buccal |-> 4, mesio_buccal |-> 3],
                  !.measurements[BLEEDING] = [mid_buccal |-> TRUE, disto_buccal |-> TRUE, mesio_buccal |-> TRUE],
                  !.measurements[PLAQUE] = [mid_buccal |-> TRUE, disto_buccal |-> TRUE, mesio_buccal |-> TRUE]]
               @@ [furcation |-> [buccal |-> 2], mobility |-> 2]
          [] OTHER -> base

INITIAL_CHART_DATA ==
    [id \in ToothIds |->
        IF id = 1 \/ id = 16 \/ id = 17 \/ id = 32
        THEN SampleTooth(id) @@ [isMissing |-> TRUE]
        ELSE SampleTooth(id)]

\* tooth.isMissing, read as a condition
IsMissing(tooth) == "isMissing" \in DOMAIN tooth /\ tooth.isMissing

\* UpdateTooth that starts the measurement block of the type afresh.
UpdateTooth_FreshBlock(tooth, location, type, value) ==
    IF type = MOBILITY THEN [mobility |-> value] @@ tooth
    ELSE IF type = FURCATION
    THEN LET old == IF "furcation" \in DOMAIN tooth THEN tooth.furcation ELSE EmptyBlock
             f1  == IF location = "furcation_buccal" THEN [buccal |-> value] @@ old ELSE old
             f2  == IF location = "furcation_lingual" THEN [lingual |-> value] @@ f1 ELSE f1
         IN  [furcation |-> f2] @@ tooth
    ELSE [measurements |-> (type :> (location :> value)) @@ tooth.measurements] @@ tooth

\* The body of the setData updater: the tooth record after one update.
UpdateTooth(tooth, location, type, value) ==
    IF type = MOBILITY THEN [mobility |-> value] @@ tooth
    ELSE IF type = FURCATION
    THEN LET old == IF "furcation" \in DOMAIN tooth THEN tooth.furcation ELSE EmptyBlock
             f1  == IF location = "furcation_buccal" THEN [buccal |-> value] @@ old ELSE old
             f2  == IF location = "furcation_lingual" THEN [lingual |-> value] @@ f1 ELSE f1
         IN  [furcation |-> f2] @@ tooth
    ELSE LET measurementBlock ==
                 IF type \in DOMAIN tooth.measurements
                 THEN tooth.measurements[type] ELSE EmptyBlock
             newBlock == (location :> value) @@ measurementBlock
         IN  [measurements |-> (type :> newBlock) @@ tooth.measurements] @@ tooth

\* updateChartData: the data array after one update; an unknown tooth id
\* leaves it as it is.
updateChartData(prevData, toothId, location, type, value) ==
    IF toothId \notin DOMAIN prevData THEN prevData
    ELSE [prevData EXCEPT ![toothId] = UpdateTooth(prevData[toothId], location, type, value)]

\* updates.forEach(upd => onUpdate(id, upd.location, upd.type, upd.value))
RECURSIVE ApplyUpdates(_, _, _)
ApplyUpdates(prevData, id, updates) ==
    IF updates = << >> THEN prevData
    ELSE LET upd == Head(updates)
         IN  The({ ApplyUpdates(d, id, Tail(updates)) :
                     d \in { updateChartData(prevData, id, upd.location, upd.type, upd.value) } })

(***************************************************************************)
(* dbDataSync: rows of the database and the updates made from them         *)
(***************************************************************************)
\* Converts quadrant and tooth_in_quadrant of a database row to the tooth
\* number.
getUniversalToothNumber(quadrant, toothInQuadrant) ==
    CASE quadrant = 1 -> 9 - toothInQuadrant
      [] quadrant = 2 -> 8 + toothInQuadrant
      [] quadrant = 3 -> 25 - toothInQuadrant
      [] quadrant = 4 -> 24 + toothInQuadrant
      [] OTHER -> -1

\* s.replace('=', ''): the first '=' is removed.
RECURSIVE RemoveFirstEquals(_)
RemoveFirstEquals(s) ==
    IF s = "" THEN ""
    ELSE IF At(s, 1) = "=" THEN SubSeq(s, 2, Len(s))
         ELSE At(s, 1) \o RemoveFirstEquals(SubSeq(s, 2, Len(s)))

\* The MeasurementType of a database type string, Null if there is none.
mapDbTypeToMeasurementType(dbType) ==
    LET cleanType == ToLowerCase(RemoveFirstEquals(dbType))
    IN  CASE cleanType \in {"pocketdepth", "pocket_depth"} -> POCKET_DEPTH
          [] cleanType = "recession" -> RECESSION
          [] cleanType \in {"bleeding", "bleeding_on_probing"} -> BLEEDING
          [] cleanType = "plaque" -> PLAQUE
          [] OTHER -> Null

mapDbSurfaceToLocation(surface, site) ==
    LET cleanSurface == ToLowerCase(RemoveFirstEquals(surface))
        prefix == IF site = "distal" THEN "disto"
                  ELSE IF site = "middle" THEN "mid" ELSE "mesio"
        suffix == IF cleanSurface = "buccal" THEN "buccal" ELSE "lingual"
    IN  prefix \o "_" \o suffix

\* A row of clinical_observations. sites holds the columns distal, middle
\* and mesial that are not null.
DbMeasurement(type, quadrant, surface, toothInQuadrant, sites, createdAt) ==
    [type |-> type, quadrant |-> quadrant, surface |-> surface,
     tooth_in_quadrant |-> toothInQuadrant, sites |-> sites, created_at |-> createdAt]

\* The row is skipped by processDbMeasurements: no tooth or no type.
RowSkipped(measurement) ==
    \/ getUniversalToothNumber(measurement.quadrant, measurement.tooth_in_quadrant) = -1
    \/ mapDbTypeToMeasurementType(measurement.type) = Null

\* The update pushed for one site of a row, none for a null site.
SiteUpdate(measurement, site) ==
    LET measurementType == mapDbTypeToMeasurementType(measurement.type)
        isBoolean == measurementType \in {BLEEDING, PLAQUE}
    IN  IF site \notin DOMAIN measurement.sites THEN << >>
        ELSE << [toothId |-> getUniversalToothNumber(measurement.quadrant,
                                                     measurement.tooth_in_quadrant),
                 location |-> mapDbSurfaceToLocation(measurement.surface, site),
                 type |-> measurementType,
                 value |-> IF isBoolean THEN measurement.sites[site] > 0
                           ELSE measurement.sites[site]] >>

\* processDbMeasurements(measurements).updates
RECURSIVE DbUpdates(_)
DbUpdates(measurements) ==
    IF measurements = << >> THEN << >>
    ELSE LET measurement == Head(measurements)
         IN  (IF RowSkipped(measurement) THEN << >>
              ELSE SiteUpdate(measurement, "distal")
                   \o SiteUpdate(measurement, "middle")
                   \o SiteUpdate(measurement, "mesial"))
             \o DbUpdates(Tail(measurements))

\* processDbMeasurements(measurements).updatedTeethIds
UpdatedTeethIds(measurements) ==
    {getUniversalToothNumber(measurements[i].quadrant, measurements[i].tooth_in_quadrant) :
        i \in {j \in DOMAIN measurements : ~RowSkipped(measurements[j])}}

processDbMeasurements(measurements) ==
    [updates |-> DbUpdates(measurements),
     updatedTeethIds |-> UpdatedTeethIds(measurements)]

\* updates.forEach(update => updateChartData(update.toothId, ...))
RECURSIVE ApplyDbUpdates(_, _)
ApplyDbUpdates(prevData, updates) ==
    IF updates = << >> THEN prevData
    ELSE LET update == Head(updates)
         IN  The({ ApplyDbUpdates(d, Tail(updates)) :
                     d \in { updateChartData(prevData, update.toothId, update.location,
                                              update.type, update.value) } })

(***************************************************************************)
(* useChartData: calculateData and processedData                           *)
(***************************************************************************)
\* const locations = ['disto_buccal', ..., 'mesio_lingual']
locations ==
    <<"disto_buccal", "mid_buccal", "mesio_buccal",
      "disto_lingual", "mid_lingual", "mesio_lingual">>

Locations == {locations[i] : i \in 1..Len(locations)}

\* tooth.measurements[type] || {}
Block(tooth, type) ==
    IF type \in DOMAIN tooth.measurements THEN tooth.measurements[type] ELSE EmptyBlock

\* typeof block[loc] === 'number' ? block[loc] : 0. Pocket depth and
\* recession blocks hold numbers only.
NumberAt(block, loc) == IF loc \in DOMAIN block THEN block[loc] ELSE 0

\* if (bop[loc]): the value is recorded and truthy.
Truthy(block, loc) == loc \in DOMAIN block /\ block[loc] = TRUE

\* SiteCal that leaves the recession out.
SiteCal_PocketDepthOnly(pocketDepth, recession) == pocketDepth

\* cal[loc] = pocketDepth + recession
SiteCal(pocketDepth, recession) == pocketDepth + recession

\* SiteRisk that does not count bleeding.
SiteRisk_NoBleeding(pocketDepth, recession, bleeding) ==
    (IF pocketDepth > 4 THEN pocketDepth - 4 ELSE 0)
    + (IF recession > 2 THEN recession - 2 ELSE 0)
    + (IF SiteCal(pocketDepth, recession) > 5 THEN SiteCal(pocketDepth, recession) - 5 ELSE 0)

\* SiteRisk that charges a recession below the threshold its distance to it.
SiteRisk_AbsoluteRecession(pocketDepth, recession, bleeding) ==
    (IF pocketDepth > 4 THEN pocketDepth - 4 ELSE 0)
    + (IF recession > 2 THEN recession - 2 ELSE 2 - recession)
    + (IF SiteCal(pocketDepth, recession) > 5 THEN SiteCal(pocketDepth, recession) - 5 ELSE 0)
    + (IF bleeding THEN 2 ELSE 0)

\* The four risk increments of one site, in the body of locations.forEach.
SiteRisk(pocketDepth, recession, bleeding) ==
    (IF pocketDepth > 4 THEN pocketDepth - 4 ELSE 0)
    + (IF recession > 2 THEN recession - 2 ELSE 0)
    + (IF SiteCal(pocketDepth, recession) > 5 THEN SiteCal(pocketDepth, recession) - 5 ELSE 0)
    + (IF bleeding THEN 2 ELSE 0)

\* tooth.mobility || 0
MobilityOf(tooth) == IF "mobility" \in DOMAIN tooth THEN tooth.mobility ELSE 0

\* tooth.furcation?.buccal || 0 and tooth.furcation?.lingual || 0
FurcationOf(tooth, side) ==
    IF "furcation" \in DOMAIN tooth /\ side \in DOMAIN tooth.furcation
    THEN tooth.furcation[side] ELSE 0

\* ToothRisk with the mobility weighted like a furcation.
ToothRisk_MobilityTimesEight(tooth) ==
    MobilityOf(tooth) * 8 + FurcationOf(tooth, "buccal") * 8
    + FurcationOf(tooth, "lingual") * 8

\* The tooth-level risk increments after the loop.
ToothRisk(tooth) ==
    MobilityOf(tooth) * 10 + FurcationOf(tooth, "buccal") * 8
    + FurcationOf(tooth, "lingual") * 8

\* The sum of f over the sites locations[i..6].
RECURSIVE SumSites(_, _)
SumSites(f, i) == IF i > Len(locations) THEN 0 ELSE f[locations[i]] + SumSites(f, i + 1)

\* calculateData(tooth): { cal, riskScore }
calculateData(tooth) ==
    LET pd  == Block(tooth, POCKET_DEPTH)
        rec == Block(tooth, RECESSION)
        bop == Block(tooth, BLEEDING)
        cal == [loc \in Locations |-> SiteCal(NumberAt(pd, loc), NumberAt(rec, loc))]
        siteRisk == [loc \in Locations |->
                        SiteRisk(NumberAt(pd, loc), NumberAt(rec, loc), Truthy(bop, loc))]
    IN  [cal |-> cal, riskScore |-> SumSites(siteRisk, 1) + ToothRisk(tooth)]

\* ProcessTooth without the shortcut for a missing tooth.
ProcessTooth_NoMissingShortcut(tooth) == calculateData(tooth) @@ tooth

\* One element of processedData: the tooth with its derived fields.
ProcessTooth(tooth) ==
    IF IsMissing(tooth)
    THEN [cal |-> EmptyBlock, riskScore |-> 0] @@ tooth
    ELSE calculateData(tooth) @@ tooth

\* processedData = useMemo(() => data.map(...), [data])
processedData(rawData) == [id \in DOMAIN rawData |-> ProcessTooth(rawData[id])]

\* useMemoProcessed that never recomputes.
useMemoProcessed_Stale(prevData, newData, memo) == memo

\* useMemo(() => data.map(...), [data]): the memo is recomputed in the
\* render after setData stored a new array, and kept when the updater
\* returned prevData.
useMemoProcessed(prevData, newData, memo) ==
    IF newData = prevData THEN memo ELSE processedData(newData)

\* The call record of calculateData.
CalculateCall(called, tooth, result) ==
    [called |-> called, tooth |-> tooth, result |-> result]

NoCalculation == CalculateCall(FALSE, BaseTooth(0), [cal |-> EmptyBlock, riskScore |-> 0])

(***************************************************************************)
(* Bounds and input sets                                                   *)
(***************************************************************************)
\* Largest one-digit measurement value written in a triplet.
MaxValue == 5

\* Largest quadrant number and tooth-in-quadrant number written in a
\* navigation command (one beyond the valid 4 and 8).
MaxQuadrantText == 5
MaxToothText == 9

\* Largest mobility grade written after "mob" (beyond the valid 3).
MaxGradeText == 4

\* Number of user inputs (text changes, clicks) in one run of the interface.
MaxInputs == 3

\* Number of clear-on-success timeouts pending at once.
MaxClearTimers == 2

\* Number of parsed commands kept in the log.
MaxDictated == 3

\* Number of calls of updateChartData in one run of the chart hook.
MaxUpdates == 2

\* Largest pocket depth, recession, mobility grade and furcation grade of the
\* tooth records given to the calculator.
MaxPocketDepth == 7
MaxRecession == 5
MaxMobility == 3
MaxFurcation == 3

\* Rows inserted into the database and polls started in one run of the sync.
MaxRows == 2
MaxPolls == 3

Surfaces == {"buccal", "lingual"}

\* The decimal text of a natural number.
RECURSIVE NumText(_)
NumText(n) ==
    LET digit == <<"0", "1", "2", "3", "4", "5", "6", "7", "8", "9">>
    IN  IF n < 10 THEN digit[n + 1] ELSE NumText(n \div 10) \o digit[(n % 10) + 1]

\* Measurement values as written: one digit up to MaxValue, and two digits.
ValueTexts == {NumText(n) : n \in (0..MaxValue) \cup {12}}

\* "q n", optionally after a surface word; q also 13 and 21.
NavTexts ==
    {p \o NumText(q) \o " " \o NumText(n) :
        p \in {"", "buccal ", "lingual "},
        q \in (1..MaxQuadrantText) \cup {13, 21},
        n \in 1..MaxToothText}

\* "n1 n2 n3"
TripletTexts ==
    {n1 \o " " \o n2 \o " " \o n3 : n1 \in ValueTexts, n2 \in ValueTexts, n3 \in ValueTexts}

\* "s k n1 n2 n3"
FullTexts ==
    {s \o " " \o k \o " " \o t : s \in Surfaces, k \in {"pd", "rec"}, t \in TripletTexts}

\* "mob d"
MobTexts == {"mob " \o NumText(d) : d \in 0..MaxGradeText} \cup {"mob 23", "mob"}

\* Single words, synonyms, delimiters, filler words, upper case, and texts
\* that are no command.
OtherTexts ==
    {"", "buccal", "lingual", "b", "ling", "palatal", "hello", "pd", "buccal pd",
     "buckle one seven", "Buccal 1 7", "3,4,5", "9-9-9", "1-1", "the the",
     "Lingual REC 2 3 2", "please set b pd 9, 9, 9", "buccal pd 5 4 123",
     "mobility two", "the mob 1", "tooth 99", "9 9 9 9", "buccal lingual",
     "mob 2 buccal", "lingual mob 3", "buccal 9 9 9", "pocket depth 9 9 9",
     "buccal pocket depth 9 9 9", "lingual recession 9 0 9"}

\* Commands with one word left open, as <<text before, text after>>: the
\* surface of a navigation, the measurement type of a full command, the
\* word before a grade, the tooth number of a navigation, the middle value
\* of a triplet, the word alone, and the surface of a full command among
\* filler words and commas.
SynonymFrames ==
    { <<"", " 1 7">>, <<"buccal ", " 9 0 9">>, <<"", " 2">>, <<"lingual 1 ", "">>,
      <<"9 ", " 9">>, <<"", "">>, <<"please set ", " pd 9,0,9">> }

\* Every frame filled with every key of the synonym table.
SynonymTexts ==
    {f[1] \o synonymMap[k][1] \o f[2] : f \in SynonymFrames, k \in DOMAIN synonymMap}

\* Texts of filler words only, and filler words next to each other inside a
\* command.
FillerTexts ==
    {"the", "a", "to the", "please set", "is a the", "set set set",
     "buccal and the 1 7", "mob to to 2", "9 the a 9 9", "please please 3 4 5"}

ParseTexts ==
    NavTexts \cup TripletTexts \cup FullTexts \cup MobTexts \cup OtherTexts
    \cup SynonymTexts \cup FillerTexts

\* The blocks that record nothing, or one of the values at one site.
BlocksAt(loc, values) == {EmptyBlock} \cup {(loc :> v) : v \in values}

\* Tooth records for the calculator: every combination of a pocket depth,
\* a recession (also a negative one, as a database row can hold) and a
\* bleeding flag at mid_buccal, below, at and above the thresholds; a second
\* site; mobility and furcation absent or recorded.
CalcMeasurements ==
    {[type \in {POCKET_DEPTH, RECESSION, BLEEDING, PLAQUE} |->
         CASE type = POCKET_DEPTH -> pdA @@ pdB
           [] type = RECESSION -> recA
           [] type = BLEEDING -> bopA @@ bopB
           [] OTHER -> EmptyBlock] :
       pdA \in BlocksAt("mid_buccal", {0, 4, 5, MaxPocketDepth}),
       pdB \in BlocksAt("disto_lingual", {6}),
       recA \in BlocksAt("mid_buccal", {-1, 0, 2, 3, MaxRecession}),
       bopA \in BlocksAt("mid_buccal", {FALSE, TRUE}),
       bopB \in BlocksAt("disto_lingual", {TRUE})}

CalcToothLevel ==
    {mob @@ furc :
       mob \in BlocksAt("mobility", {0, MaxMobility}),
       furc \in BlocksAt("furcation", {[buccal |-> 1],
                                       [buccal |-> 1, lingual |-> MaxFurcation]})}

\* The record of tooth 2 after the dictation of "3 4 5" on the buccal
\* surface and "mob 2".
DictatedTooth ==
    [id |-> 2,
     measurements |->
        [type \in {POCKET_DEPTH, RECESSION, BLEEDING, PLAQUE} |->
            IF type = POCKET_DEPTH
            THEN [disto_buccal |-> 3, mid_buccal |-> 4, mesio_buccal |-> 5]
            ELSE EmptyBlock],
     mobility |-> 2]

CalcTeeth ==
    {[id |-> 2, measurements |-> m] @@ level :
        m \in CalcMeasurements, level \in CalcToothLevel}
    \cup {DictatedTooth}
    \cup {INITIAL_CHART_DATA[id] : id \in {2, 3, 7, 14, 19, 30}}

\* The commands of the dictation scenario, in order.
ScenarioTexts == <<"buccal 1 7", "3 4 5", "mob 2">>

\* Arguments of updateChartData: teeth 1 (flagged missing), 2 (nothing
\* recorded), 3 (sample data) and an id that is no tooth; site values,
\* flags, a mobility and furcation grades as dictation, the manual
\* controls and the database sync pass them.
ChartTeeth == {1, 2, 3, 33}

ChartUpdates ==
    {[type |-> type, location |-> loc, value |-> 6] :
        type \in {POCKET_DEPTH, RECESSION}, loc \in {"mid_buccal", "disto_lingual"}}
    \cup {[type |-> BLEEDING, location |-> "mid_buccal", value |-> v] : v \in BOOLEAN}
    \cup {[type |-> PLAQUE, location |-> "disto_lingual", value |-> TRUE]}
    \cup {[type |-> MOBILITY, location |-> "mobility", value |-> 2]}
    \cup {[type |-> FURCATION, location |-> "furcation_" \o side, value |-> 1] :
            side \in {"buccal", "lingual"}}

\* created_at of the n-th row inserted.
CreatedAt(n) == "2025-01-01T10:00:0" \o NumText(n)

\* Rows inserted into the database: a pocket-depth row, a bleeding row with
\* a null site and '=' prefixes, and a row of a type the sync does not know.
DbRows(n) ==
    { DbMeasurement("pocket_depth", 1, "buccal", 7,
                    [distal |-> 3, middle |-> 4, mesial |-> 5], CreatedAt(n)),
      DbMeasurement("=Bleeding", 3, "=Lingual", 1,
                    [distal |-> 1, mesial |-> 0], CreatedAt(n)),
      DbMeasurement("furcation", 2, "buccal", 2, [middle |-> 1], CreatedAt(n)) }

\* Texts entered in the interface, and teeth clicked in the 3D chart
\* (1 is flagged missing).
UITexts ==
    {"buccal 1 7", "3 4 5", "9 9 9", "mob 2", "lingual", "hello", "1 8"}

ClickTeeth == {1, 3}

(***************************************************************************)
(* State                                                                   *)
(***************************************************************************)
VARIABLES
    data,               \* useChartData: the raw tooth records
    chartData,          \* useChartData: processedData, the memoized derived records
    selectedToothId,    \* App: selected tooth, 0 for null
    activeSurface,      \* App: "buccal", "lingual" or Null
    showTextWindow,     \* App: analysis window open
    command,            \* InfoPanel: the command text
    debouncedCommand,   \* useDebounce: the debounced command text
    debounceTimer,      \* useDebounce: <<v>> while a timer waits to set v
    highlightedResult,  \* InfoPanel: << >> for null, or <<[text, isMatched]>>
    clearTimers,        \* InfoPanel: pending clear-on-success timeouts
    effectPending,      \* InfoPanel: a dependency of the apply effect changed
    parsed,             \* the latest call of parseCommand and its result
    calculated,         \* the latest call of calculateData and its result
    dictated,           \* the commands the apply effect has parsed, in order
    mapped,             \* the latest call of the two tooth-number mappings
    lastFetchTimeRef,   \* App: lastFetchTimeRef.current
    database,           \* the rows of clinical_observations, in insertion order
    fetches,            \* responses of fetchDbMeasurements not yet resolved
    blinkingTeeth,      \* App: the teeth blinking after a sync
    blinkTimers,        \* App: pending stop-blinking timeouts
    synced,             \* latestTimestamp of every poll that applied its updates
    inputs              \* number of user inputs so far

vars ==
    <<data, chartData, selectedToothId, activeSurface, showTextWindow, command,
      debouncedCommand, debounceTimer, highlightedResult, clearTimers,
      effectPending, parsed, calculated, dictated, mapped, lastFetchTimeRef,
      database, fetches, blinkingTeeth, blinkTimers, synced, inputs>>

appVars == <<data, chartData, selectedToothId, activeSurface, showTextWindow>>

\* The records of calls, which only the called function's own step changes.
callVars == <<parsed, calculated, dictated, mapped>>

\* The database sync of App and the table it polls.
syncVars == <<lastFetchTimeRef, database, fetches, blinkingTeeth, blinkTimers, synced>>

\* The call record of getUniversalToothNumber and getUniversalToothId.
MapCall(called, quadrant, toothInQuadrant, toothNumber, toothId) ==
    [called |-> called, quadrant |-> quadrant, toothInQuadrant |-> toothInQuadrant,
     toothNumber |-> toothNumber, toothId |-> toothId]

\* No sync has happened: the ref holds '', the table is empty, no fetch is
\* in flight and no tooth blinks.
SyncIdle ==
    /\ lastFetchTimeRef = ""
    /\ database = << >>
    /\ fetches = << >>
    /\ blinkingTeeth = {}
    /\ blinkTimers = 0
    /\ synced = << >>

panelVars ==
    <<command, debouncedCommand, debounceTimer, highlightedResult, clearTimers,
      effectPending>>

\* The call record of parseCommand.
ParseCall(called, text, surface, result) ==
    [called |-> called, text |-> text, activeSurface |-> surface, result |-> result]

\* The state after construction: App's useState initial values; no InfoPanel
\* is mounted while no tooth is selected.
Init ==
    /\ data = INITIAL_CHART_DATA
    /\ chartData = processedData(INITIAL_CHART_DATA)
    /\ selectedToothId = 0
    /\ activeSurface = "buccal"
    /\ showTextWindow = FALSE
    /\ command = ""
    /\ debouncedCommand = ""
    /\ debounceTimer = << >>
    /\ highlightedResult = << >>
    /\ clearTimers = 0
    /\ effectPending = FALSE
    /\ parsed = ParseCall(FALSE, "", Null, EmptyResult)
    /\ calculated = NoCalculation
    /\ dictated = << >>
    /\ mapped = MapCall(FALSE, 0, 0, 0, 0)
    /\ SyncIdle
    /\ inputs = 0

(***************************************************************************)
(* App handlers and InfoPanel                                              *)
(***************************************************************************)
\* selectedToothData is non-null: the InfoPanel is rendered.
PanelMounted == selectedToothId \in DOMAIN chartData

\* handleToothSelect without the test for a missing tooth.
handleToothSelect_NoMissingCheck(chart, currentId, toothId) ==
    IF currentId = toothId THEN 0 ELSE toothId

\* handleToothSelect: the selection after the call. A missing tooth is
\* refused; selecting the selected tooth deselects it.
handleToothSelect(chart, currentId, toothId) ==
    IF toothId \in DOMAIN chart /\ IsMissing(chart[toothId]) THEN currentId
    ELSE IF currentId = toothId THEN 0 ELSE toothId

\* handleToothSelect opens the analysis window unless the tooth is refused.
WindowAfterSelect(chart, toothId, shown) ==
    IF toothId \in DOMAIN chart /\ IsMissing(chart[toothId]) THEN shown
    ELSE IF toothId # 0 THEN TRUE ELSE shown

\* InfoPanel is keyed by the tooth id: when the selection changes the old
\* instance unmounts (its debounce timer is cleared by the effect cleanup,
\* its clear timeouts act on the unmounted instance and change nothing) and
\* a new instance mounts with fresh state; mounting schedules the effects.
Remount(newSelected) ==
    /\ command' = ""
    /\ debouncedCommand' = ""
    /\ highlightedResult' = << >>
    /\ clearTimers' = 0
    /\ debounceTimer' = IF newSelected \in DOMAIN chartData THEN <<"">> ELSE << >>
    /\ effectPending' = (newSelected \in DOMAIN chartData)

\* A click on a tooth of the 3D chart.
ToothClick(toothId) ==
    /\ inputs < MaxInputs
    /\ inputs' = inputs + 1
    /\ selectedToothId' = handleToothSelect(chartData, selectedToothId, toothId)
    /\ showTextWindow' = WindowAfterSelect(chartData, toothId, showTextWindow)
    /\ IF selectedToothId' # selectedToothId
       THEN Remount(selectedToothId')
       ELSE UNCHANGED panelVars
    /\ UNCHANGED <<data, chartData, activeSurface, callVars, syncVars>>

\* handleSetSurface, from the surface tabs of the InfoPanel.
handleSetSurface(surface) ==
    /\ PanelMounted
    /\ inputs < MaxInputs
    /\ inputs' = inputs + 1
    /\ activeSurface' = surface
    /\ effectPending' = (effectPending \/ surface # activeSurface)
    /\ UNCHANGED <<data, chartData, selectedToothId, showTextWindow, command,
                   debouncedCommand, debounceTimer, highlightedResult, clearTimers,
                   callVars, syncVars>>

\* handleClosePanel, from the close button of the InfoPanel.
handleClosePanel ==
    /\ PanelMounted
    /\ inputs < MaxInputs
    /\ inputs' = inputs + 1
    /\ selectedToothId' = 0
    /\ Remount(0)
    /\ UNCHANGED <<data, chartData, activeSurface, showTextWindow, callVars, syncVars>>

\* closeAllWindows, called when the voice-chat widget becomes ready.
closeAllWindows ==
    /\ inputs < MaxInputs
    /\ inputs' = inputs + 1
    /\ showTextWindow' = FALSE
    /\ selectedToothId' = 0
    /\ IF selectedToothId # 0 THEN Remount(0) ELSE UNCHANGED panelVars
    /\ UNCHANGED <<data, chartData, activeSurface, callVars, syncVars>>

\* handleOverallAnalysis, from the overall-analysis button.
handleOverallAnalysis ==
    /\ inputs < MaxInputs
    /\ inputs' = inputs + 1
    /\ showTextWindow' = TRUE
    /\ selectedToothId' = 0
    /\ IF selectedToothId # 0 THEN Remount(0) ELSE UNCHANGED panelVars
    /\ UNCHANGED <<data, chartData, activeSurface, callVars, syncVars>>

\* setCommand whose useDebounce does not clear a pending timer.
setCommand_KeepsPendingTimer(t) ==
    /\ PanelMounted
    /\ inputs < MaxInputs
    /\ inputs' = inputs + 1
    /\ t # command
    /\ command' = t
    /\ debounceTimer' = IF debounceTimer # << >> THEN debounceTimer ELSE <<t>>
    /\ UNCHANGED <<appVars, debouncedCommand, highlightedResult, clearTimers,
                   effectPending, callVars, syncVars>>

\* setCommand(t): the command text changes; useDebounce clears the pending
\* timer and starts one for the new text.
setCommand(t) ==
    /\ PanelMounted
    /\ inputs < MaxInputs
    /\ inputs' = inputs + 1
    /\ t # command
    /\ command' = t
    /\ debounceTimer' = <<t>>
    /\ UNCHANGED <<appVars, debouncedCommand, highlightedResult, clearTimers,
                   effectPending, callVars, syncVars>>

\* The useDebounce timer fires: setDebouncedValue(value).
DebounceFire ==
    /\ debounceTimer # << >>
    /\ debouncedCommand' = debounceTimer[1]
    /\ debounceTimer' = << >>
    /\ effectPending' = (effectPending \/ debouncedCommand' # debouncedCommand)
    /\ UNCHANGED <<appVars, command, highlightedResult, clearTimers, callVars,
                   syncVars, inputs>>

\* The clear-on-success timeout fires: setCommand(''), setHighlightedResult(null).
ClearFire ==
    /\ PanelMounted
    /\ clearTimers > 0
    /\ clearTimers' = clearTimers - 1
    /\ command' = ""
    /\ debounceTimer' = IF command # "" THEN <<"">> ELSE debounceTimer
    /\ highlightedResult' = << >>
    /\ UNCHANGED <<appVars, debouncedCommand, effectPending, callVars, syncVars,
                   inputs>>

\* if (action?.type === 'SELECT_TOOTH') onSelectTooth(action.payload)
EffectSelected(r, chart, currentId) ==
    IF r.action.type = "SELECT_TOOTH"
    THEN handleToothSelect(chart, currentId, r.action.payload)
    ELSE currentId

EffectWindow(r, chart, shown) ==
    IF r.action.type = "SELECT_TOOTH"
    THEN WindowAfterSelect(chart, r.action.payload, shown)
    ELSE shown

\* EffectSurface without the test for a null contextUpdate.
EffectSurface_NoNullCheck(r, surface) == r.contextUpdate

\* EffectSurface that also switches to the lingual surface when updates are
\* applied.
EffectSurface_UpdatesSwitch(r, surface) ==
    IF r.contextUpdate # Null THEN r.contextUpdate
    ELSE IF Len(r.updates) > 0 THEN "lingual" ELSE surface

\* if (contextUpdate) onSetSurface(contextUpdate.surface)
EffectSurface(r, surface) ==
    IF r.contextUpdate # Null THEN r.contextUpdate ELSE surface

\* const success = updates.length > 0 || !!action || !!contextUpdate
Success(r) == Len(r.updates) > 0 \/ r.action # NoAction \/ r.contextUpdate # Null

\* The log of parsed commands, kept up to MaxDictated entries.
Logged(log, text) == IF Len(log) < MaxDictated THEN Append(log, text) ELSE log

\* parseCommand on every text the command box can hold and every active
\* surface, evaluated once.
parseCommandOfInputs ==
    [t \in UITexts, s \in Surfaces \cup {Null} |-> parseCommand(t, s)]

\* The parse-and-apply effect of InfoPanel runs after a render in which one
\* of its dependencies (debouncedCommand, id, onUpdate, onSelectTooth,
\* onSetSurface, activeSurface) changed. onSelectTooth is handleToothSelect,
\* which is recreated whenever chartData is.
ApplyEffect ==
    /\ PanelMounted
    /\ effectPending
    /\ IF debouncedCommand # ""
       THEN \E r \in {parseCommandOfInputs[debouncedCommand, activeSurface]} :
              /\ Success(r) => clearTimers < MaxClearTimers
              /\ parsed' = ParseCall(TRUE, debouncedCommand, activeSurface, r)
              /\ dictated' = Logged(dictated, debouncedCommand)
              /\ selectedToothId' = EffectSelected(r, chartData, selectedToothId)
              /\ showTextWindow' = EffectWindow(r, chartData, showTextWindow)
              /\ activeSurface' = EffectSurface(r, activeSurface)
              /\ data' = ApplyUpdates(data, selectedToothId, r.updates)
              /\ chartData' = useMemoProcessed(data, data', chartData)
              /\ IF selectedToothId' # selectedToothId
                 THEN Remount(selectedToothId')
                 ELSE /\ highlightedResult' =
                            <<[text |-> debouncedCommand, isMatched |-> Success(r)]>>
                      /\ clearTimers' = IF Success(r) THEN clearTimers + 1 ELSE clearTimers
                      /\ effectPending' =
                            (activeSurface' # activeSurface \/ Len(r.updates) > 0)
                      /\ UNCHANGED <<command, debouncedCommand, debounceTimer>>
       ELSE /\ highlightedResult' = << >>
            /\ effectPending' = FALSE
            /\ UNCHANGED <<appVars, command, debouncedCommand, debounceTimer,
                           clearTimers, parsed, dictated>>
    /\ UNCHANGED <<calculated, mapped, syncVars, inputs>>

Next ==
    \/ \E toothId \in ClickTeeth : ToothClick(toothId)
    \/ \E surface \in Surfaces : handleSetSurface(surface)
    \/ handleClosePanel
    \/ closeAllWindows
    \/ handleOverallAnalysis
    \/ \E t \in UITexts \cup {""} : setCommand(t)
    \/ DebounceFire
    \/ ClearFire
    \/ ApplyEffect

Spec == Init /\ [][Next]_vars

(***************************************************************************)
(* parseCommand on its own: every text and every active surface            *)
(***************************************************************************)
InitParse ==
    /\ data = INITIAL_CHART_DATA
    /\ chartData = processedData(INITIAL_CHART_DATA)
    /\ selectedToothId = 0
    /\ activeSurface = "buccal"
    /\ showTextWindow = FALSE
    /\ command = ""
    /\ debouncedCommand = ""
    /\ debounceTimer = << >>
    /\ highlightedResult = << >>
    /\ clearTimers = 0
    /\ effectPending = FALSE
    /\ inputs = 0
    /\ calculated = NoCalculation
    /\ dictated = << >>
    /\ mapped = MapCall(FALSE, 0, 0, 0, 0)
    /\ SyncIdle
    /\ \E t \in ParseTexts, s \in Surfaces \cup {Null} :
          parsed = ParseCall(FALSE, t, s, EmptyResult)

\* One call parseCommand(text, activeSurface).
CallParse ==
    /\ ~parsed.called
    /\ parsed' = ParseCall(TRUE, parsed.text, parsed.activeSurface,
                           parseCommand(parsed.text, parsed.activeSurface))
    /\ UNCHANGED <<appVars, panelVars, calculated, dictated, mapped, syncVars, inputs>>

NextParse == CallParse

SpecParse == InitParse /\ [][NextParse]_vars

(***************************************************************************)
(* The dictation scenario: the panel is open on tooth 3 and the commands   *)
(* of ScenarioTexts are entered                                            *)
(***************************************************************************)
\* The state after handleToothSelect(3) on the initial chart: tooth 3 is
\* selected, the analysis window is open and the InfoPanel has just mounted.
InitScenario ==
    /\ data = INITIAL_CHART_DATA
    /\ chartData = processedData(INITIAL_CHART_DATA)
    /\ selectedToothId = handleToothSelect(processedData(INITIAL_CHART_DATA), 0, 3)
    /\ activeSurface = "buccal"
    /\ showTextWindow = WindowAfterSelect(processedData(INITIAL_CHART_DATA), 3, FALSE)
    /\ command = ""
    /\ debouncedCommand = ""
    /\ debounceTimer = <<"">>
    /\ highlightedResult = << >>
    /\ clearTimers = 0
    /\ effectPending = TRUE
    /\ parsed = ParseCall(FALSE, "", Null, EmptyResult)
    /\ calculated = NoCalculation
    /\ dictated = << >>
    /\ mapped = MapCall(FALSE, 0, 0, 0, 0)
    /\ SyncIdle
    /\ inputs = 0

NextScenario ==
    \/ \E i \in 1..Len(ScenarioTexts) : setCommand(ScenarioTexts[i])
    \/ DebounceFire
    \/ ClearFire
    \/ ApplyEffect

SpecScenario == InitScenario /\ [][NextScenario]_vars

(***************************************************************************)
(* The chart hook on its own: any sequence of calls of updateChartData     *)
(***************************************************************************)
\* updateChartData(toothId, location, type, value) and the render after it.
UpdateChart(toothId, upd) ==
    /\ inputs < MaxUpdates
    /\ inputs' = inputs + 1
    /\ data' = updateChartData(data, toothId, upd.location, upd.type, upd.value)
    /\ chartData' = useMemoProcessed(data, data', chartData)
    /\ UNCHANGED <<selectedToothId, activeSurface, showTextWindow, panelVars, callVars,
                   syncVars>>

NextChart == \E toothId \in ChartTeeth, upd \in ChartUpdates : UpdateChart(toothId, upd)

SpecChart == Init /\ [][NextChart]_vars

(***************************************************************************)
(* calculateData on its own: every tooth record of CalcTeeth               *)
(***************************************************************************)
InitCalc ==
    /\ data = INITIAL_CHART_DATA
    /\ chartData = processedData(INITIAL_CHART_DATA)
    /\ selectedToothId = 0
    /\ activeSurface = "buccal"
    /\ showTextWindow = FALSE
    /\ command = ""
    /\ debouncedCommand = ""
    /\ debounceTimer = << >>
    /\ highlightedResult = << >>
    /\ clearTimers = 0
    /\ effectPending = FALSE
    /\ inputs = 0
    /\ parsed = ParseCall(FALSE, "", Null, EmptyResult)
    /\ dictated = << >>
    /\ mapped = MapCall(FALSE, 0, 0, 0, 0)
    /\ SyncIdle
    /\ \E tooth \in CalcTeeth :
          calculated = CalculateCall(FALSE, tooth, NoCalculation.result)

\* One call calculateData(tooth).
CallCalculate ==
    /\ ~calculated.called
    /\ calculated' = CalculateCall(TRUE, calculated.tooth, calculateData(calculated.tooth))
    /\ UNCHANGED <<appVars, panelVars, parsed, dictated, mapped, syncVars, inputs>>

NextCalc == CallCalculate

SpecCalc == InitCalc /\ [][NextCalc]_vars

(***************************************************************************)
(* The two tooth-number mappings on their own                              *)
(***************************************************************************)
InitMap ==
    /\ data = INITIAL_CHART_DATA
    /\ chartData = processedData(INITIAL_CHART_DATA)
    /\ selectedToothId = 0
    /\ activeSurface = "buccal"
    /\ showTextWindow = FALSE
    /\ command = ""
    /\ debouncedCommand = ""
    /\ debounceTimer = << >>
    /\ highlightedResult = << >>
    /\ clearTimers = 0
    /\ effectPending = FALSE
    /\ parsed = ParseCall(FALSE, "", Null, EmptyResult)
    /\ calculated = NoCalculation
    /\ dictated = << >>
    /\ SyncIdle
    /\ inputs = 0
    /\ \E quadrant \in 0..MaxQuadrantText, toothInQuadrant \in 0..MaxToothText :
          mapped = MapCall(FALSE, quadrant, toothInQuadrant, 0, 0)

\* One call of getUniversalToothNumber and one of getUniversalToothId on
\* the same arguments.
CallMap ==
    /\ ~mapped.called
    /\ mapped' = MapCall(TRUE, mapped.quadrant, mapped.toothInQuadrant,
                         getUniversalToothNumber(mapped.quadrant, mapped.toothInQuadrant),
                         getUniversalToothId(mapped.quadrant, mapped.toothInQuadrant))
    /\ UNCHANGED <<appVars, panelVars, parsed, calculated, dictated, syncVars, inputs>>

NextMap == CallMap

SpecMap == InitMap /\ [][NextMap]_vars

(***************************************************************************)
(* The database sync: polls of syncDatabaseData against a growing table    *)
(***************************************************************************)
\* A row is inserted into clinical_observations.
InsertRow(row) ==
    /\ Len(database) < MaxRows
    /\ database' = Append(database, row)
    /\ UNCHANGED <<appVars, panelVars, callVars, lastFetchTimeRef, fetches,
                   blinkingTeeth, blinkTimers, synced, inputs>>

\* The polling interval calls syncDatabaseData, which starts a fetch; the
\* response holds the rows of the table, or nothing when the request fails.
\* The interval does not wait for earlier fetches.
PollStart(response) ==
    /\ inputs < MaxPolls
    /\ inputs' = inputs + 1
    /\ fetches' = Append(fetches, response)
    /\ UNCHANGED <<appVars, panelVars, callVars, lastFetchTimeRef, database,
                   blinkingTeeth, blinkTimers, synced>>

\* The sequence without its i-th element.
RemoveAt(seq, i) == SubSeq(seq, 1, i - 1) \o SubSeq(seq, i + 1, Len(seq))

\* measurements[measurements.length - 1]?.created_at || ''
LatestTimestamp(measurements) == measurements[Len(measurements)].created_at

\* The poll applies its updates: the response is not empty and its latest
\* timestamp is not the one of lastFetchTimeRef.
PollApplies(measurements, lastFetchTime) ==
    /\ Len(measurements) # 0
    /\ LatestTimestamp(measurements) # lastFetchTime

\* The i-th fetch in flight resolves and syncDatabaseData runs to its end.
PollResolve(i) ==
    /\ i \in DOMAIN fetches
    /\ fetches' = RemoveAt(fetches, i)
    /\ LET measurements == fetches[i]
           processed == processDbMeasurements(measurements)
       IN  IF PollApplies(measurements, lastFetchTimeRef)
           THEN /\ lastFetchTimeRef' = LatestTimestamp(measurements)
                /\ synced' = Append(synced, LatestTimestamp(measurements))
                /\ data' = ApplyDbUpdates(data, processed.updates)
                /\ chartData' = useMemoProcessed(data, data', chartData)
                /\ IF processed.updatedTeethIds # {}
                   THEN /\ blinkingTeeth' = processed.updatedTeethIds
                        /\ blinkTimers' = blinkTimers + 1
                   ELSE UNCHANGED <<blinkingTeeth, blinkTimers>>
           ELSE UNCHANGED <<data, chartData, lastFetchTimeRef, synced, blinkingTeeth,
                            blinkTimers>>
    /\ UNCHANGED <<selectedToothId, activeSurface, showTextWindow, panelVars, callVars,
                   database, inputs>>

\* The stop-blinking timeout fires: setBlinkingTeeth(new Set()).
BlinkStop ==
    /\ blinkTimers > 0
    /\ blinkTimers' = blinkTimers - 1
    /\ blinkingTeeth' = {}
    /\ UNCHANGED <<appVars, panelVars, callVars, lastFetchTimeRef, database, fetches,
                   synced, inputs>>

NextSync ==
    \/ \E row \in DbRows(Len(database) + 1) : InsertRow(row)
    \/ \E response \in {database, << >>} : PollStart(response)
    \/ \E i \in 1..MaxPolls : PollResolve(i)
    \/ BlinkStop

SpecSync == Init /\ [][NextSync]_vars

(***************************************************************************)
(* Properties of parseCommand (checked under SpecParse)                    *)
(***************************************************************************)
\* The latest call, its normalized text and its result.
CallText == normalizeCommand(parsed.text)

\* A text of one or two decimal digits.
IsNumberText(p) ==
    /\ Len(p) \in {1, 2}
    /\ \A i \in 1..Len(p) : IsDigit(At(p, i))

\* The words of the raw text of the latest call.
CallParts == Split(parsed.text, "")

\* The raw text is exactly three numbers separated by single spaces.
IsTripletCall ==
    /\ Len(CallParts) = 3
    /\ \A i \in 1..3 : IsNumberText(CallParts[i])

\* No pass of parseCommand matches the normalized text.
NoPassMatches(commandString, surface) ==
    /\ NavToothId(commandString) = 0
    /\ ~RapidApplies(commandString, surface)
    /\ ~fullMatch(commandString).matched
    /\ ~mobMatch(commandString).matched
    /\ ~SurfaceApplies(commandString)

\* C1: the result of parseCommand is the output of the first pass, in the
\* order navigation, rapid triplet, full command, mobility, surface-only,
\* whose pattern matches; later passes contribute nothing to it.
C1_FirstMatchingPassDecides ==
    parsed.called =>
        LET cs    == CallText
            as    == parsed.activeSurface
            nav   == NavToothId(cs) # 0
            rapid == as # Null /\ rapidMatch(cs).matched
            full  == fullMatch(cs).matched
            mob   == mobMatch(cs).matched
            surf  == cs \in Surfaces
        IN  /\ nav => parsed.result = NavResult(cs)
            /\ (~nav /\ rapid) => parsed.result = RapidResult(cs, as)
            /\ (~nav /\ ~rapid /\ full) => parsed.result = FullResult(cs)
            /\ (~nav /\ ~rapid /\ ~full /\ mob) => parsed.result = MobResult(cs)
            /\ (~nav /\ ~rapid /\ ~full /\ ~mob /\ surf) =>
                    parsed.result = ParseResult(<< >>, NoAction, cs)
            /\ (~nav /\ ~rapid /\ ~full /\ ~mob /\ ~surf) =>
                    parsed.result = ParseResult(<< >>, NoAction, Null)

\* A call whose text matches both the navigation and the rapid-entry
\* pattern, answered by the navigation pass.
C1_Witness ==
    /\ parsed.called
    /\ NavToothId(CallText) # 0
    /\ RapidApplies(CallText, parsed.activeSurface)
    /\ parsed.result.action.type = "SELECT_TOOTH"
    /\ parsed.result.updates = << >>

\* C2: "s q n" with a surface word s, q in 1..4 and n in 1..8 yields the
\* navigation to the tooth of (q, n), contextUpdate s and no update; "q n"
\* yields the same navigation with contextUpdate null.
C2_NavigationWithSurface ==
    parsed.called =>
        \A q \in 1..4, n \in 1..8 :
            LET qn  == NumText(q) \o " " \o NumText(n)
                nav == [type |-> "SELECT_TOOTH", payload |-> getUniversalToothId(q, n)]
            IN  /\ \A s \in Surfaces :
                      parsed.text = s \o " " \o qn =>
                          parsed.result = ParseResult(<< >>, nav, s)
                /\ parsed.text = qn => parsed.result = ParseResult(<< >>, nav, Null)

C2_Witness ==
    /\ parsed.called
    /\ parsed.text = "lingual 4 8"
    /\ parsed.result.action = [type |-> "SELECT_TOOTH", payload |-> 17]
    /\ parsed.result.contextUpdate = "lingual"

\* C3: the navigation target of "q n" is 9-n, 8+n, 24+n, 25-n for quadrant
\* 1, 2, 3, 4, and always a tooth id in 1..32.
C3_NavigationTarget ==
    parsed.called =>
        /\ \A q \in 1..4, n \in 1..8 :
              parsed.text = NumText(q) \o " " \o NumText(n) =>
                  /\ parsed.result.action.type = "SELECT_TOOTH"
                  /\ parsed.result.action.payload =
                        CASE q = 1 -> 9 - n [] q = 2 -> 8 + n
                          [] q = 3 -> 24 + n [] q = 4 -> 25 - n
        /\ parsed.result.action.type = "SELECT_TOOTH" =>
              parsed.result.action.payload \in 1..32
        /\ parsed.text = "1 7" => parsed.result.action.payload = 2
        /\ parsed.text = "2 5" => parsed.result.action.payload = 13
        /\ parsed.text = "3 8" => parsed.result.action.payload = 32
        /\ parsed.text = "4 1" => parsed.result.action.payload = 24

C3_Witness ==
    /\ parsed.called
    /\ parsed.text = "3 8"
    /\ parsed.result.action = [type |-> "SELECT_TOOTH", payload |-> 32]

\* C4: with activeSurface buccal or lingual, a text of exactly three numbers
\* n1 n2 n3 yields exactly the three PocketDepth updates disto = n1,
\* mid = n2, mesio = n3 of the active surface.
C4_TripletYieldsDepths ==
    (parsed.called /\ parsed.activeSurface \in Surfaces /\ IsTripletCall) =>
        parsed.result.updates =
            SiteUpdates(POCKET_DEPTH, parsed.activeSurface, ParseInt(CallParts[1]),
                        ParseInt(CallParts[2]), ParseInt(CallParts[3]))

\* C5: with activeSurface null, a text of three numbers yields no update.
C5_TripletNeedsSurface ==
    (parsed.called /\ parsed.activeSurface = Null /\ IsTripletCall) =>
        parsed.result.updates = << >>

\* Three numbers that only the rapid-entry pattern matches, parsed with no
\* active surface.
C5_Witness ==
    /\ parsed.called
    /\ parsed.activeSurface = Null
    /\ parsed.text = "5 0 12"
    /\ NavToothId(CallText) = 0
    /\ rapidMatch(CallText).matched
    /\ parsed.result.updates = << >>

\* C6: "s k n1 n2 n3" with s a surface and k pd or rec yields exactly three
\* updates of kind k at disto_s = n1, mid_s = n2, mesio_s = n3, and
\* contextUpdate = s, whatever the active surface.
C6_FullCommand ==
    ( /\ parsed.called
      /\ Len(CallParts) = 5
      /\ CallParts[1] \in Surfaces
      /\ CallParts[2] \in {"pd", "rec"}
      /\ \A i \in 3..5 : IsNumberText(CallParts[i]) ) =>
        /\ parsed.result.updates =
              SiteUpdates(IF CallParts[2] = "pd" THEN POCKET_DEPTH ELSE RECESSION,
                          CallParts[1], ParseInt(CallParts[3]),
                          ParseInt(CallParts[4]), ParseInt(CallParts[5]))
        /\ parsed.result.contextUpdate = CallParts[1]

\* C7: "mob d" with d in 0..3 yields exactly one update, Mobility at
\* 'mobility' with value d, no navigation and no contextUpdate; no
\* Mobility update carries a value outside 0..3.
C7_Mobility ==
    parsed.called =>
        /\ \A d \in 0..3 :
              parsed.text = "mob " \o NumText(d) =>
                  parsed.result =
                      ParseResult(<< [type |-> MOBILITY, location |-> "mobility",
                                      value |-> d] >>, NoAction, Null)
        /\ \A i \in 1..Len(parsed.result.updates) :
              parsed.result.updates[i].type = MOBILITY =>
                  parsed.result.updates[i].value \in 0..3

C7_Witness ==
    /\ parsed.called
    /\ parsed.text = "mob 3"
    /\ Len(parsed.result.updates) = 1
    /\ parsed.result.updates[1].value = 3

\* C8: when the normalized command is exactly the word buccal or lingual,
\* the result is only contextUpdate = that surface.
C8_SurfaceOnly ==
    (parsed.called /\ CallText \in Surfaces) =>
        parsed.result = ParseResult(<< >>, NoAction, CallText)

C8_Witness ==
    /\ parsed.called
    /\ parsed.text = "palatal"
    /\ parsed.activeSurface = "buccal"
    /\ parsed.result = ParseResult(<< >>, NoAction, "lingual")

\* C10: two numbers that are not a quadrant in 1..4 followed by a tooth in
\* 1..8 never produce a navigation action.
C10_OutOfRangeIsNoNavigation ==
    ( /\ parsed.called
      /\ Len(CallParts) = 2
      /\ IsNumberText(CallParts[1])
      /\ IsNumberText(CallParts[2])
      /\ ~(ParseInt(CallParts[1]) \in 1..4 /\ ParseInt(CallParts[2]) \in 1..8) ) =>
        parsed.result.action = NoAction

(***************************************************************************)
(* Properties of the interface (checked under Spec)                        *)
(***************************************************************************)
\* C9: when the apply effect runs on a text that no pass matches, the parse
\* result is all-empty and the effect changes neither the chart data, nor
\* the selected tooth, nor activeSurface.
C9_NoMatchNoAction ==
    [][ ( /\ debouncedCommand # ""
          /\ inputs' = inputs
          /\ command' = command \/ selectedToothId' # selectedToothId
          /\ debounceTimer' = debounceTimer \/ selectedToothId' # selectedToothId
          /\ ApplyEffect
          /\ NoPassMatches(normalizeCommand(debouncedCommand), activeSurface) ) =>
            /\ parsed'.result.updates = << >>
            /\ parsed'.result.action = NoAction
            /\ parsed'.result.contextUpdate = Null
            /\ data' = data
            /\ selectedToothId' = selectedToothId
            /\ activeSurface' = activeSurface ]_vars

\* The effect has run on "hello" and reported it as not matched.
C9_Witness ==
    /\ parsed.called
    /\ parsed.text = "hello"
    /\ NoPassMatches(normalizeCommand(parsed.text), parsed.activeSurface)
    /\ highlightedResult = <<[text |-> "hello", isMatched |-> FALSE]>>
    /\ debouncedCommand = "hello"

(***************************************************************************)
(* Properties of calculateData (checked under SpecCalc)                    *)
(***************************************************************************)
\* max(0, x)
AtLeastZero(x) == IF x > 0 THEN x ELSE 0

\* The riskScore of a tooth as the sum the specification states, with
\* every absent input counted as 0 or false.
StatedRisk(tooth) ==
    LET pd  == Block(tooth, POCKET_DEPTH)
        rec == Block(tooth, RECESSION)
        bop == Block(tooth, BLEEDING)
        term == [loc \in Locations |->
                    AtLeastZero(NumberAt(pd, loc) - 4)
                    + AtLeastZero(NumberAt(rec, loc) - 2)
                    + AtLeastZero(NumberAt(pd, loc) + NumberAt(rec, loc) - 5)
                    + (IF Truthy(bop, loc) THEN 2 ELSE 0)]
    IN  SumSites(term, 1) + 10 * MobilityOf(tooth)
        + 8 * FurcationOf(tooth, "buccal") + 8 * FurcationOf(tooth, "lingual")

\* The tooth records that differ from the given one in exactly one input,
\* raised by 1 or by 3 (a bleeding flag: from false to true).
IncreasedTeeth(tooth) ==
    {UpdateTooth(tooth, loc, type, NumberAt(Block(tooth, type), loc) + d) :
        loc \in Locations, type \in {POCKET_DEPTH, RECESSION}, d \in {1, 3}}
    \cup {UpdateTooth(tooth, loc, BLEEDING, TRUE) :
            loc \in {l \in Locations : ~Truthy(Block(tooth, BLEEDING), l)}}
    \cup {UpdateTooth(tooth, "mobility", MOBILITY, MobilityOf(tooth) + d) : d \in {1, 3}}
    \cup {UpdateTooth(tooth, "furcation_" \o side, FURCATION, FurcationOf(tooth, side) + d) :
            side \in {"buccal", "lingual"}, d \in {1, 3}}

\* The calculator has run on a non-missing tooth with PocketDepth
\* disto_buccal 3, mid_buccal 4, mesio_buccal 5, no recession, no bleeding,
\* no furcation and mobility 2.
IsDictatedToothCall ==
    /\ calculated.called
    /\ ~IsMissing(calculated.tooth)
    /\ Block(calculated.tooth, POCKET_DEPTH) =
          [disto_buccal |-> 3, mid_buccal |-> 4, mesio_buccal |-> 5]
    /\ Block(calculated.tooth, RECESSION) = EmptyBlock
    /\ Block(calculated.tooth, BLEEDING) = EmptyBlock
    /\ "furcation" \notin DOMAIN calculated.tooth
    /\ MobilityOf(calculated.tooth) = 2

\* C13 as stated: that tooth gets cal 3, 4, 5 at the buccal sites and
\* riskScore 20 (mobility only).
C13_DictatedToothScores ==
    IsDictatedToothCall =>
        /\ calculated.result.cal["disto_buccal"] = 3
        /\ calculated.result.cal["mid_buccal"] = 4
        /\ calculated.result.cal["mesio_buccal"] = 5
        /\ calculated.result.riskScore = 20

\* C13 amended: that tooth gets cal 3, 4, 5 at the buccal sites and
\* riskScore 21: 20 for mobility 2 and 1 for the pocket depth 5 at
\* mesio_buccal, which exceeds the threshold 4.
C13_DictatedToothScoresAmended ==
    IsDictatedToothCall =>
        /\ calculated.result.cal["disto_buccal"] = 3
        /\ calculated.result.cal["mid_buccal"] = 4
        /\ calculated.result.cal["mesio_buccal"] = 5
        /\ calculated.result.riskScore = 21
        /\ calculated.result.riskScore = 10 * 2 + (5 - 4)

C13_Witness ==
    /\ calculated.called
    /\ calculated.tooth = DictatedTooth
    /\ calculated.result.riskScore = 21
    /\ calculated.result.cal["mesio_buccal"] = 5

\* C14: for every non-missing tooth the riskScore is the sum over the six
\* sites of max(0, pd-4) + max(0, rec-2) + max(0, pd+rec-5) + 2 for
\* bleeding, plus 10*mobility + 8*furcation.buccal + 8*furcation.lingual;
\* a tooth with nothing recorded gets cal 0 at the six sites and
\* riskScore 0; the calculator always returns a value.
C14_RiskScoreFormula ==
    (calculated.called /\ ~IsMissing(calculated.tooth)) =>
        /\ calculated.result.riskScore = StatedRisk(calculated.tooth)
        /\ calculated.result.riskScore \in Int
        /\ DOMAIN calculated.result = {"cal", "riskScore"}
        /\ ( /\ \A type \in DOMAIN calculated.tooth.measurements :
                   calculated.tooth.measurements[type] = EmptyBlock
             /\ DOMAIN calculated.tooth = {"id", "measurements"} ) =>
               /\ calculated.result.cal = [loc \in Locations |-> 0]
               /\ calculated.result.riskScore = 0

\* The calculator has run on a tooth with nothing recorded.
C14_Witness ==
    /\ calculated.called
    /\ calculated.tooth = BaseTooth(2)
    /\ calculated.result = [cal |-> [loc \in Locations |-> 0], riskScore |-> 0]

\* C15: for every non-missing tooth, cal has an entry for each of the six
\* sites, equal to the pocket depth plus the recession of the site, a value
\* never recorded counting as 0.
C15_CalAdditivity ==
    (calculated.called /\ ~IsMissing(calculated.tooth)) =>
        /\ DOMAIN calculated.result.cal = Locations
        /\ \A loc \in Locations :
              calculated.result.cal[loc] =
                  NumberAt(Block(calculated.tooth, POCKET_DEPTH), loc)
                  + NumberAt(Block(calculated.tooth, RECESSION), loc)

\* A tooth with a pocket depth and a recession at mid_buccal, and a pocket
\* depth only at disto_lingual.
C15_Witness ==
    /\ calculated.called
    /\ Block(calculated.tooth, POCKET_DEPTH) = [mid_buccal |-> 5, disto_lingual |-> 6]
    /\ Block(calculated.tooth, RECESSION) = [mid_buccal |-> 3]
    /\ calculated.result.cal["mid_buccal"] = 8
    /\ calculated.result.cal["disto_lingual"] = 6
    /\ calculated.result.cal["mid_lingual"] = 0

\* C16: raising exactly one input of a non-missing tooth (one site's pocket
\* depth or recession, one site's bleeding from false to true, the
\* mobility, or one furcation grade) never lowers the riskScore.
C16_RiskMonotone ==
    (calculated.called /\ ~IsMissing(calculated.tooth)) =>
        \A raised \in IncreasedTeeth(calculated.tooth) :
            calculateData(raised).riskScore >= calculated.result.riskScore

\* A tooth whose recession at mid_buccal is below the threshold: raising
\* it by 1 leaves the riskScore, raising it by 3 raises the riskScore.
C16_Witness ==
    /\ calculated.called
    /\ Block(calculated.tooth, RECESSION) = [mid_buccal |-> 0]
    /\ Block(calculated.tooth, POCKET_DEPTH) = EmptyBlock
    /\ calculateData(UpdateTooth(calculated.tooth, "mid_buccal", RECESSION, 1)).riskScore
          = calculated.result.riskScore
    /\ calculateData(UpdateTooth(calculated.tooth, "mid_buccal", RECESSION, 3)).riskScore
          = calculated.result.riskScore + 1

(***************************************************************************)
(* Further properties of parseCommand and normalizeCommand (SpecParse)     *)
(***************************************************************************)
\* C11: no result of parseCommand holds both a navigation action and
\* updates.
C11_NeverNavigationAndUpdates ==
    parsed.called =>
        ~(parsed.result.action # NoAction /\ Len(parsed.result.updates) > 0)

\* A full command whose numbers also match the navigation pattern: the
\* result navigates and holds no update.
C11_Witness ==
    /\ parsed.called
    /\ parsed.text = "lingual rec 2 3 2"
    /\ fullMatch(CallText).matched
    /\ parsed.result.action = [type |-> "SELECT_TOOTH", payload |-> 11]
    /\ parsed.result.updates = << >>

\* C20: normalizing the normalized text of any call changes nothing.
C20_NormalizeIdempotent ==
    parsed.called =>
        normalizeCommand(normalizeCommand(parsed.text)) = normalizeCommand(parsed.text)

\* C21: for every key of the synonym table, every frame and every active
\* surface, the command written with the key parses to the result of the
\* command written with the key's canonical word.
C21_SynonymEquivalence ==
    \A k \in DOMAIN synonymMap, f \in SynonymFrames :
        (parsed.called /\ parsed.text = f[1] \o synonymMap[k][1] \o f[2]) =>
            parsed.result =
                parseCommand(f[1] \o synonymMap[k][2] \o f[2], parsed.activeSurface)

\* A full command written with "receding" and one written with a number
\* word have been parsed to the updates of the canonical command.
C21_Witness ==
    /\ parsed.called
    /\ parsed.text \in {"buccal receding 9 0 9", "9 nine 9"}
    /\ parsed.activeSurface = "lingual"
    /\ Len(parsed.result.updates) = 3
    /\ parsed.result.updates[2].value \in {0, 9}
    /\ parsed.result.updates[2].type \in {RECESSION, POCKET_DEPTH}

\* The space-delimited tokens of a text.
Tokens(s) == Split(s, "")

\* C22: the normalized text of any call holds no filler word as a token of
\* its own.
C22_NoFillerWordLeft ==
    parsed.called =>
        \A i \in DOMAIN Tokens(normalizeCommand(parsed.text)) :
            \A k \in DOMAIN fillerWords :
                Tokens(normalizeCommand(parsed.text))[i] # fillerWords[k]

(***************************************************************************)
(* The dictation scenario (checked under SpecScenario)                     *)
(***************************************************************************)
\* C12: once "buccal 1 7", "3 4 5" and "mob 2" have been parsed and
\* applied in that order, starting with nothing recorded for tooth 2,
\* tooth 2 is selected and holds PocketDepth disto_buccal 3, mid_buccal 4,
\* mesio_buccal 5 and mobility 2, and no other tooth's record has changed.
C12_DictationScenario ==
    dictated = ScenarioTexts =>
        /\ selectedToothId = 2
        /\ Block(data[2], POCKET_DEPTH) =
              [disto_buccal |-> 3, mid_buccal |-> 4, mesio_buccal |-> 5]
        /\ "mobility" \in DOMAIN data[2]
        /\ MobilityOf(data[2]) = 2
        /\ \A id \in ToothIds \ {2} : data[id] = INITIAL_CHART_DATA[id]

(***************************************************************************)
(* Properties of the chart hook (checked under SpecChart)                  *)
(***************************************************************************)
\* The raw fields of a tooth record: the six sites of the four measurement
\* types, the mobility and the two furcation grades.
RawFields ==
    ({POCKET_DEPTH, RECESSION, BLEEDING, PLAQUE} \X Locations)
    \cup {<<MOBILITY, "mobility">>, <<FURCATION, "furcation_buccal">>,
          <<FURCATION, "furcation_lingual">>}

\* << >> when the tooth does not record the field, else <<its value>>.
RawField(tooth, field) ==
    LET type == field[1]
        loc  == field[2]
    IN  IF type = MOBILITY
        THEN IF "mobility" \in DOMAIN tooth THEN <<tooth.mobility>> ELSE << >>
        ELSE IF type = FURCATION
        THEN LET side == IF loc = "furcation_buccal" THEN "buccal" ELSE "lingual"
             IN  IF "furcation" \in DOMAIN tooth /\ side \in DOMAIN tooth.furcation
                 THEN <<tooth.furcation[side]>> ELSE << >>
        ELSE IF loc \in DOMAIN Block(tooth, type)
             THEN <<Block(tooth, type)[loc]>> ELSE << >>

\* The missing flag of a record: << >> when absent.
MissingFlag(tooth) == IF "isMissing" \in DOMAIN tooth THEN <<tooth.isMissing>> ELSE << >>

\* C17: every tooth flagged missing is exposed with cal = {} and
\* riskScore = 0, whatever its record holds and whatever updates were
\* applied to it.
C17_MissingToothShortcut ==
    \A id \in DOMAIN chartData :
        IsMissing(data[id]) =>
            /\ chartData[id].cal = EmptyBlock
            /\ chartData[id].riskScore = 0

\* The missing tooth 1 has received a pocket depth and a mobility, and is
\* still exposed with no cal and riskScore 0.
C17_Witness ==
    /\ IsMissing(data[1])
    /\ RawField(data[1], <<POCKET_DEPTH, "mid_buccal">>) = <<6>>
    /\ RawField(data[1], <<MOBILITY, "mobility">>) = <<2>>
    /\ chartData[1].cal = EmptyBlock
    /\ chartData[1].riskScore = 0

\* C18: the derived fields exposed for every non-missing tooth are the
\* calculator's result on the tooth's current raw fields, and the exposed
\* raw fields are the current ones.
C18_DerivedFieldsCurrent ==
    /\ DOMAIN chartData = DOMAIN data
    /\ \A id \in DOMAIN data :
          ~IsMissing(data[id]) =>
              /\ chartData[id].cal = calculateData(data[id]).cal
              /\ chartData[id].riskScore = calculateData(data[id]).riskScore
              /\ \A field \in RawFields :
                    RawField(chartData[id], field) = RawField(data[id], field)

\* Tooth 2 has received a pocket depth 6 and a recession 6 at mid_buccal and
\* is exposed with cal 12 there and the riskScore 13 of these two values.
C18_Witness ==
    /\ inputs = 2
    /\ RawField(data[2], <<POCKET_DEPTH, "mid_buccal">>) = <<6>>
    /\ RawField(data[2], <<RECESSION, "mid_buccal">>) = <<6>>
    /\ chartData[2].cal["mid_buccal"] = 12
    /\ chartData[2].riskScore = 13

\* C19: one call updateChartData(T, L, K, V) changes only the addressed raw
\* field of tooth T and T's derived cal and riskScore: the other raw fields
\* of T, T's id and missing flag, and every raw and derived field of every
\* other tooth stay as they were; T's derived fields are those of T's own
\* record.
C19_UpdateFrame ==
    [][ \A toothId \in ChartTeeth, upd \in ChartUpdates :
          UpdateChart(toothId, upd) =>
              /\ DOMAIN data' = DOMAIN data
              /\ \A id \in DOMAIN data \ {toothId} :
                    data'[id] = data[id] /\ chartData'[id] = chartData[id]
              /\ toothId \in DOMAIN data =>
                    /\ data'[toothId].id = data[toothId].id
                    /\ MissingFlag(data'[toothId]) = MissingFlag(data[toothId])
                    /\ RawField(data'[toothId], <<upd.type, upd.location>>) = <<upd.value>>
                    /\ \A field \in RawFields \ {<<upd.type, upd.location>>} :
                          RawField(data'[toothId], field) = RawField(data[toothId], field)
                    /\ chartData'[toothId] = ProcessTooth(data'[toothId]) ]_vars

\* Tooth 3, which holds sample data at three buccal sites, has received a
\* pocket depth at mid_buccal; its other sites are as in the sample data.
C19_Witness ==
    /\ inputs = 1
    /\ RawField(data[3], <<POCKET_DEPTH, "mid_buccal">>) = <<6>>
    /\ RawField(data[3], <<POCKET_DEPTH, "disto_buccal">>) = <<4>>
    /\ data[3].measurements[RECESSION] = INITIAL_CHART_DATA[3].measurements[RECESSION]
    /\ \A id \in ToothIds \ {3} : data[id] = INITIAL_CHART_DATA[id]

(***************************************************************************)
(* Further properties of the interface (checked under Spec)                *)
(***************************************************************************)
\* C23: activeSurface changes only in a step of handleSetSurface or in a run
\* of the apply effect whose parse result holds a contextUpdate, and then to
\* that surface; a run of the effect whose result holds no contextUpdate
\* (rapid triplet, mobility, unrecognised text) leaves it unchanged.
C23_SurfaceFrame ==
    [][ /\ activeSurface' # activeSurface =>
              \/ /\ inputs' = inputs + 1
                 /\ handleSetSurface(activeSurface')
              \/ /\ inputs' = inputs
                 /\ debouncedCommand # ""
                 /\ ApplyEffect
                 /\ parseCommandOfInputs[debouncedCommand, activeSurface].contextUpdate
                       = activeSurface'
        /\ ( /\ inputs' = inputs
             /\ debouncedCommand # ""
             /\ effectPending
             /\ parsed'.called
             /\ parsed'.text = debouncedCommand
             /\ parsed'.activeSurface = activeSurface
             /\ parsed'.result.contextUpdate = Null
             /\ ApplyEffect ) => activeSurface' = activeSurface ]_vars

\* The effect has parsed "lingual" on the buccal surface and switched to the
\* lingual surface without any use of the surface tabs; or it has applied a
\* rapid triplet on the lingual surface, which is still active.
C23_Witness ==
    /\ parsed.called
    /\ selectedToothId = 3
    /\ \/ /\ parsed.text = "lingual"
          /\ parsed.activeSurface = "buccal"
          /\ parsed.result.contextUpdate = "lingual"
          /\ activeSurface = "lingual"
          /\ inputs = 2
       \/ /\ parsed.text = "9 9 9"
          /\ parsed.activeSurface = "lingual"
          /\ parsed.result.contextUpdate = Null
          /\ Len(parsed.result.updates) = 3
          /\ activeSurface = "lingual"

\* C24: every change of the command text replaces the pending debounce timer
\* by one for the new text; debouncedCommand changes only to the text the
\* command box holds when the timer fires (or to '' in a new panel); and the
\* parser is called on debouncedCommand only. So a text that was replaced
\* before its timer fired is never parsed.
C24_ParsedAfterDebounce ==
    [][ /\ command' # command => debounceTimer' \in {<<command'>>, << >>}
        /\ debounceTimer' # << >> => debounceTimer' = <<command'>>
        /\ debouncedCommand' # debouncedCommand =>
              \/ debounceTimer # << >> /\ debouncedCommand' = command
              \/ selectedToothId' # selectedToothId /\ debouncedCommand' = ""
        /\ parsed' # parsed =>
              /\ debouncedCommand # ""
              /\ parsed'.text = debouncedCommand ]_vars

\* After the click on tooth 3 and two further inputs the box holds "hello",
\* and "hello" is the only text that was parsed.
C24_Witness ==
    /\ inputs = 3
    /\ selectedToothId = 3
    /\ command = "hello"
    /\ debouncedCommand = "hello"
    /\ dictated = <<"hello">>
    /\ parsed.text = "hello"

\* C27: a run of the apply effect whose parse result navigates to a tooth
\* that is not missing leaves that tooth selected, also when it was selected
\* before.
C27_NavigationSelects ==
    [][ ( /\ inputs' = inputs
          /\ debouncedCommand # ""
          /\ effectPending
          /\ parsed'.called
          /\ parsed'.text = debouncedCommand
          /\ parsed'.activeSurface = activeSurface
          /\ parsed'.result.action.type = "SELECT_TOOTH"
          /\ ~IsMissing(chartData[parsed'.result.action.payload])
          /\ ApplyEffect )
        => selectedToothId' = parsed'.result.action.payload ]_vars

\* C28: the selected tooth is none or a tooth of the chart that is not
\* missing, after every step (clicks, navigation, closing the panel,
\* closeAllWindows, overall analysis); a click on a missing tooth and a
\* navigation to a missing tooth leave the selection unchanged.
C28_SelectionNeverMissing ==
    [][ /\ \/ selectedToothId' = 0
           \/ /\ selectedToothId' \in DOMAIN chartData'
              /\ ~IsMissing(chartData'[selectedToothId'])
        /\ \A toothId \in ClickTeeth :
              ( /\ inputs' = inputs + 1
                /\ IsMissing(chartData[toothId])
                /\ ToothClick(toothId) ) => selectedToothId' = selectedToothId
        /\ ( /\ inputs' = inputs
             /\ debouncedCommand # ""
             /\ effectPending
             /\ parsed'.called
             /\ parsed'.text = debouncedCommand
             /\ parsed'.activeSurface = activeSurface
             /\ parsed'.result.action.type = "SELECT_TOOTH"
             /\ IsMissing(chartData[parsed'.result.action.payload])
             /\ ApplyEffect ) => selectedToothId' = selectedToothId ]_vars

\* The effect has parsed "1 8", a navigation to tooth 1, which is missing,
\* and tooth 3 is still selected.
C28_Witness ==
    /\ parsed.called
    /\ parsed.text = "1 8"
    /\ parsed.result.action = [type |-> "SELECT_TOOTH", payload |-> 1]
    /\ IsMissing(chartData[1])
    /\ selectedToothId = 3
    /\ highlightedResult = <<[text |-> "1 8", isMatched |-> TRUE]>>

\* C29: the apply effect does not run on a debounced text whose updates it
\* has applied already: no run of the effect starts in a state where the
\* panel shows the success of that text, parsed on the active surface with
\* updates.
C29_AppliedOnce ==
    [][ ~( /\ inputs' = inputs
           /\ debouncedCommand # ""
           /\ effectPending
           /\ parsed.called
           /\ parsed.text = debouncedCommand
           /\ parsed.activeSurface = activeSurface
           /\ Len(parsed.result.updates) > 0
           /\ highlightedResult = <<[text |-> debouncedCommand, isMatched |-> TRUE]>>
           /\ dictated' = Logged(dictated, debouncedCommand)
           /\ ApplyEffect ) ]_vars

\* C30: a clear-on-success timeout that fires changes the command text only
\* if the text is the one whose success the panel shows; a text entered
\* after the success is left in the command box.
C30_ClearKeepsNewText ==
    [][ ( /\ inputs' = inputs
          /\ clearTimers > 0
          /\ clearTimers' = clearTimers - 1
          /\ command' # command
          /\ ClearFire )
        => highlightedResult = <<[text |-> command, isMatched |-> TRUE]>> ]_vars

(***************************************************************************)
(* Properties of the database sync (checked under SpecSync and SpecMap)    *)
(***************************************************************************)
\* C25: no latest created_at timestamp is applied twice: once a poll has
\* applied the rows of a response, no later poll whose response has the same
\* latest timestamp applies updates or starts a blink.
C25_NeverReprocessed ==
    \A i \in DOMAIN synced, j \in DOMAIN synced : i < j => synced[i] # synced[j]

\* C26: for quadrants 1 to 4 and teeth 1 to 8, getUniversalToothNumber and
\* getUniversalToothId return the same tooth.
C26_SameMapping ==
    ( /\ mapped.called
      /\ mapped.quadrant \in 1..4
      /\ mapped.toothInQuadrant \in 1..8 ) => mapped.toothNumber = mapped.toothId

====
